---- MODULE Spec2Model ----
(***************************************************************************)
(* Model of the knowledge-base service: DocumentProcessor (chunking and    *)
(* document ids), VectorStore (add / search / delete over the Chroma       *)
(* collection), QAService (extractive answers, confidence, completeness)   *)
(* and the HTTP handlers of app/api/routes.py.                             *)
(*                                                                         *)
(* Texts, ids and queries are sequences of one-character strings, so that  *)
(* str.split, str.join, slicing and str.startswith are computed as Python  *)
(* computes them.  Similarities are integers in tenths (7 stands for 0.7). *)
(***************************************************************************)
EXTENDS Integers, Sequences, FiniteSets, TLC

VARIABLES
    collection,   \* the Chroma collection: stored chunks in insertion order
    upload_dir,   \* settings.upload_dir: filename -> text of the file on disk
    reqs,         \* upload / update requests suspended at an await
    response,     \* the response of the request that completed last
    ck,           \* one call of DocumentProcessor._chunk_text and its result
    qa,           \* one answer of QAService built from a retrieved list
    cov           \* one coverage analysis of QAService for a topic

vars == <<collection, upload_dir, reqs, response, ck, qa, cov>>

\* the calls of single functions, untouched by the handlers
units == <<ck, qa, cov>>

----------------------------------------------------------------------------
(* Bounds of the model *)

MaxLen == 5          \* longest text given to the chunker on its own
MaxSize == 3         \* largest chunk_size / chunk_overlap tried on the chunker
ModelChunkSize == 2  \* settings.chunk_size the service runs with in the model
ModelChunkOverlap == 1 \* settings.chunk_overlap the service runs with
MaxResults == 2      \* largest max_results a search asks for
MaxBatch == 2        \* most files in one batch upload
MaxRetrieved == 4    \* longest retrieved list an answer is built from
MaxCovered == 2      \* longest retrieved list a coverage analysis reads
DigestTail == 4      \* hex digits of the model's digest that encode content[:100]

----------------------------------------------------------------------------
(* Python string and list primitives *)

Chars == {"a", "b", " "}

Min(a, b) == IF a < b THEN a ELSE b
Max(a, b) == IF a > b THEN a ELSE b

\* seq[i:j] with 0 <= i (Python slice, zero based, clipped to the length)
Slice(seq, i, j) == SubSeq(seq, i + 1, Min(j, Len(seq)))

\* All texts of at most n characters
TextsUpTo(n) == UNION {[1..k -> Chars] : k \in 0..n}

RECURSIVE SplitFrom(_, _)
SplitFrom(text, word) ==
    IF text = <<>>
    THEN IF word = <<>> THEN <<>> ELSE <<word>>
    ELSE IF Head(text) = " "
         THEN (IF word = <<>> THEN <<>> ELSE <<word>>) \o SplitFrom(Tail(text), <<>>)
         ELSE SplitFrom(Tail(text), Append(word, Head(text)))

\* text.split(): the maximal runs of non-whitespace characters
split(text) == SplitFrom(text, <<>>)

RECURSIVE join(_)
\* ' '.join(words)
join(words) ==
    IF words = <<>> THEN <<>>
    ELSE IF Len(words) = 1 THEN words[1]
    ELSE words[1] \o <<" ">> \o join(Tail(words))

\* s.startswith(prefix)
startswith(s, prefix) ==
    Len(prefix) <= Len(s) /\ SubSeq(s, 1, Len(prefix)) = prefix

DigitChar == <<"0", "1", "2", "3", "4", "5", "6", "7", "8", "9">>

RECURSIVE str(_)
\* str(i) for an integer i >= 0
str(i) ==
    IF i < 10 THEN <<DigitChar[i + 1]>>
    ELSE str(i \div 10) \o <<DigitChar[(i % 10) + 1]>>

----------------------------------------------------------------------------
(* DocumentProcessor *)

RECURSIVE ChunkWindowsNoOverlap(_, _, _, _)
\* the windows when the start advances by size, not by size - overlap
ChunkWindowsNoOverlap(words, i, size, overlap) ==
    IF i >= Len(words) THEN <<>>
    ELSE <<join(Slice(words, i, i + size))>>
            \o ChunkWindowsNoOverlap(words, i + size, size, overlap)

RECURSIVE ChunkWindows(_, _, _, _)
\* the loop of _chunk_text from index i on: for i in range(i, len(words), size - overlap)
ChunkWindows(words, i, size, overlap) ==
    IF i >= Len(words) THEN <<>>
    ELSE LET chunk == join(Slice(words, i, i + size))
         IN  (IF chunk # <<>> THEN <<chunk>> ELSE <<>>)
                \o ChunkWindows(words, i + (size - overlap), size, overlap)

\* _chunk_text(text) under chunk_size = size, chunk_overlap = overlap.
\* range() raises ValueError for a step of zero and is empty for a negative one.
chunk_text(text, size, overlap) ==
    IF text = <<>> THEN [raised |-> FALSE, chunks |-> <<>>]
    ELSE IF size - overlap = 0 THEN [raised |-> TRUE, chunks |-> <<>>]
    ELSE IF size - overlap < 0 THEN [raised |-> FALSE, chunks |-> <<>>]
    ELSE [raised |-> FALSE, chunks |-> ChunkWindows(split(text), 0, size, overlap)]

\* _generate_document_id: hashlib.md5(f"{filename}_{len(content)}_{content[:100]}").
\* MD5 is taken to be collision free on the inputs of the model: the digest is a
\* fixed-width injective encoding of the hashed string in hexadecimal digits
\* (a hexdigest never holds the "_" that separates a chunk id's index).
HexOfChar(c) == CASE c = "a" -> "a" [] c = "b" -> "b" [] c = " " -> "2" [] OTHER -> "0"
HexOfStem(s) == CASE s = "f" -> "f" [] s = "g" -> "e" [] OTHER -> "d"
HexOfExt(e) == CASE e = ".txt" -> "1" [] OTHER -> "3"
PrefixLen == 100

Md5Hex(filename, n, prefix) ==
    <<HexOfStem(filename.stem), HexOfExt(filename.ext), DigitChar[(n % 10) + 1]>>
        \o [i \in 1..DigestTail |->
                IF i <= Len(prefix) THEN HexOfChar(prefix[i]) ELSE "0"]

generate_document_id(filename, content) ==
    Md5Hex(filename, Len(content), Slice(content, 0, PrefixLen))

\* f"{document_id}_{i}"
ChunkId(document_id, i) == document_id \o <<"_">> \o str(i)

\* the processed_chunks list built by process_document from the extracted text
ProcessedChunks(filename, content, chunks) ==
    LET document_id == generate_document_id(filename, content)
    IN  [i \in 1..Len(chunks) |->
            [document_id |-> document_id,
             chunk_id    |-> ChunkId(document_id, i - 1),
             content     |-> chunks[i],
             metadata    |-> [filename     |-> filename,
                              chunk_index  |-> i - 1,
                              total_chunks |-> Len(chunks)]]]

----------------------------------------------------------------------------
(* VectorStore *)

batch_size == 10
DefaultMaxResults == 10
DefaultThreshold == 7

\* The embedding model and the cosine distance of Chroma are external; they are
\* stood in for by a deterministic map of texts to a line and a distance in
\* tenths within [0, 20], so that similarity = 10 - distance lies in [-10, 10].
Weight(c) == CASE c = "a" -> 1 [] c = "b" -> 3 [] OTHER -> 0

RECURSIVE encode(_)
encode(text) == IF text = <<>> THEN 0 ELSE Weight(Head(text)) + encode(Tail(text))

Abs(x) == IF x < 0 THEN -x ELSE x

Distance(query, document) == Min(20, 4 * Abs(encode(query) - encode(document)))

Ids(coll) == {coll[i].id : i \in DOMAIN coll}

StoredRecord(chunk) ==
    [id |-> chunk.chunk_id, document |-> chunk.content, metadata |-> chunk.metadata]

\* collection.add that stores every record of the batch again, stored or not
CollectionAddAppends(coll, batch, dup_raises) ==
    [raised |-> FALSE,
     coll |-> coll \o [i \in 1..Len(batch) |-> StoredRecord(batch[i])]]

\* collection.add(ids, embeddings, documents, metadatas) of one batch.  Chroma
\* either rejects a batch that holds an id already stored (DuplicateIDError,
\* dup_raises) or skips the ids already stored, depending on its version.
CollectionAdd(coll, batch, dup_raises) ==
    LET IsNew(chunk) == chunk.chunk_id \notin Ids(coll)
        fresh == SelectSeq(batch, IsNew)
    IN  IF dup_raises /\ Len(fresh) < Len(batch)
        THEN [raised |-> TRUE, coll |-> coll]
        ELSE [raised |-> FALSE,
              coll |-> coll \o [i \in 1..Len(fresh) |-> StoredRecord(fresh[i])]]

RECURSIVE AddBatches(_, _, _, _)
\* for i in range(i, len(chunks), batch_size): self.collection.add(batch)
AddBatches(coll, chunks, i, dup_raises) ==
    IF i >= Len(chunks) THEN [raised |-> FALSE, coll |-> coll]
    ELSE LET r == CollectionAdd(coll, Slice(chunks, i, i + batch_size), dup_raises)
         IN  IF r.raised THEN r
             ELSE AddBatches(r.coll, chunks, i + batch_size, dup_raises)

\* add_documents(chunks): the returned dict (document_id <<>> when the key is
\* absent), the collection afterwards, and whether collection.add raised.
add_documents(coll, chunks, dup_raises) ==
    IF chunks = <<>>
    THEN [raised |-> FALSE, status |-> "error", chunks_added |-> 0,
          document_id |-> <<>>, coll |-> coll]
    ELSE LET r == AddBatches(coll, chunks, 0, dup_raises)
         IN  IF r.raised
             THEN [raised |-> TRUE, status |-> "", chunks_added |-> 0,
                   document_id |-> <<>>, coll |-> r.coll]
             ELSE [raised |-> FALSE, status |-> "success", chunks_added |-> Len(chunks),
                   document_id |-> <<chunks[1].document_id>>, coll |-> r.coll]

RECURSIVE NearestFirst(_, _)
\* the stored chunks by ascending distance to the query, ties in insertion order
NearestFirst(coll, query) ==
    IF coll = <<>> THEN <<>>
    ELSE LET best == CHOOSE i \in DOMAIN coll :
                        \A j \in DOMAIN coll :
                            \/ Distance(query, coll[i].document) < Distance(query, coll[j].document)
                            \/ /\ Distance(query, coll[i].document) = Distance(query, coll[j].document)
                               /\ i <= j
             rest == [k \in 1..(Len(coll) - 1) |-> IF k < best THEN coll[k] ELSE coll[k + 1]]
         IN  <<coll[best]>> \o NearestFirst(rest, query)

\* collection.query(query_embeddings, n_results): Chroma rejects n_results <= 0
\* and returns the stored chunks it has when there are fewer than n_results.
CollectionQuery(coll, query, n_results) ==
    IF n_results <= 0 THEN [raised |-> TRUE, hits |-> <<>>]
    ELSE [raised |-> FALSE, hits |-> Slice(NearestFirst(coll, query), 0, n_results)]

\* metadata.get(key, "")
MetadataGet(metadata, key) ==
    IF key \in DOMAIN metadata THEN metadata[key] ELSE <<>>

SearchResult(hit, similarity_score) ==
    [document_id      |-> MetadataGet(hit.metadata, "document_id"),
     filename         |-> MetadataGet(hit.metadata, "filename"),
     chunk_id         |-> hit.id,
     content          |-> hit.document,
     similarity_score |-> similarity_score,
     metadata         |-> hit.metadata]

Similarity(query, hit) == 10 - Distance(query, hit.document)

\* search that compares the distance, not the similarity, with the threshold
searchByDistance(coll, query, max_results, similarity_threshold) ==
    LET q == CollectionQuery(coll, query, max_results)
        Keeps(hit) == Distance(query, hit.document) >= similarity_threshold
        kept == SelectSeq(q.hits, Keeps)
    IN  [raised  |-> q.raised,
         results |-> [i \in 1..Len(kept) |->
                        SearchResult(kept[i], Similarity(query, kept[i]))]]

\* VectorStore.search(query, max_results, similarity_threshold)
search(coll, query, max_results, similarity_threshold) ==
    LET q == CollectionQuery(coll, query, max_results)
        Keeps(hit) == Similarity(query, hit) >= similarity_threshold
        kept == SelectSeq(q.hits, Keeps)
    IN  [raised  |-> q.raised,
         results |-> [i \in 1..Len(kept) |->
                        SearchResult(kept[i], Similarity(query, kept[i]))]]

SearchParameters == {"query", "max_results", "similarity_threshold"}

\* self.vector_store.search(**kwargs): Python raises TypeError for a keyword the
\* signature does not have and fills the defaults of the ones left out.
CallSearch(coll, kwargs) ==
    IF ~(DOMAIN kwargs \subseteq SearchParameters)
    THEN [raised |-> TRUE, results |-> <<>>]
    ELSE search(coll, kwargs.query,
                IF "max_results" \in DOMAIN kwargs
                    THEN kwargs.max_results ELSE DefaultMaxResults,
                IF "similarity_threshold" \in DOMAIN kwargs
                    THEN kwargs.similarity_threshold ELSE DefaultThreshold)

\* the match without the separator: chunk_id.startswith(document_id)
ChunksToDeleteNoSeparator(coll, document_id) ==
    LET Matches(c) == startswith(c.id, document_id)
    IN  SelectSeq(coll, Matches)

\* the chunk ids delete_document collects: chunk_id.startswith(f"{document_id}_")
ChunksToDelete(coll, document_id) ==
    LET Matches(c) == startswith(c.id, document_id \o <<"_">>)
    IN  SelectSeq(coll, Matches)

\* delete_document that removes only the first chunk it collected
delete_documentFirstOnly(coll, document_id) ==
    LET doomed == ChunksToDelete(coll, document_id)
        Stays(c) == doomed = <<>> \/ doomed[1].id # c.id
    IN  [chunks_deleted |-> Len(doomed), coll |-> SelectSeq(coll, Stays)]

\* delete_document that collects the chunks and never deletes them
delete_documentKeepsAll(coll, document_id) ==
    [chunks_deleted |-> Len(ChunksToDelete(coll, document_id)), coll |-> coll]

\* VectorStore.delete_document(document_id)
delete_document(coll, document_id) ==
    LET doomed == ChunksToDelete(coll, document_id)
        Stays(c) == \A i \in DOMAIN doomed : doomed[i].id # c.id
    IN  [chunks_deleted |-> Len(doomed), coll |-> SelectSeq(coll, Stays)]

----------------------------------------------------------------------------
(* Inputs of the service in the model *)

FTxt == [stem |-> "f", ext |-> ".txt"]
XExe == [stem |-> "x", ext |-> ".exe"]
FileNames == {FTxt, XExe}

max_file_size == 100 * 1024 * 1024
AllowedExtensions == {".pdf", ".txt", ".docx", ".md", ".html"}

UploadFile(filename, content) ==
    [filename |-> filename, content |-> content, size |-> Len(content)]

DocA == UploadFile(FTxt, <<"a", " ", "b">>)
DocB == UploadFile(FTxt, <<"b">>)
\* an upload over the size limit (its text is not spelled out)
HugeFile == [filename |-> FTxt, content |-> <<"b", "b">>, size |-> max_file_size + 1]

Files ==
    { DocA, DocB,
      UploadFile(FTxt, <<>>),
      UploadFile(FTxt, <<" ">>),
      UploadFile(XExe, <<"a">>),
      HugeFile }

\* the files a batch upload is made of: one that indexes, one that is rejected
BatchFiles == { DocB, UploadFile(XExe, <<"a">>) }

Queries == { <<>>, <<"a">>, <<"b">> }
Thresholds == {0, 7}

IdA == generate_document_id(DocA.filename, DocA.content)
IdB == generate_document_id(DocB.filename, DocB.content)

\* document ids a client asks to delete or update: the ids of the two documents,
\* an id that was never issued, and a chunk id passed as a document id
DocumentIds == { IdA, IdB, <<"n", "o">>, ChunkId(IdA, 0) }
UpdateIds == { IdA, <<"n", "o">> }

Handlers == {"r1", "r2"}
\* the handlers that take uploads and updates under Spec
Workers == {"r1"}

NoFile == [exists |-> FALSE, text |-> <<>>]
NullFile == [filename |-> [stem |-> "", ext |-> ""], content |-> <<>>, size |-> 0]
Idle == [pc |-> "idle", kind |-> "", target |-> <<>>, file |-> NullFile, text |-> <<>>,
         was_indexed |-> FALSE]
CkUnused == [text |-> <<>>, size |-> 1, overlap |-> 0,
             called |-> TRUE, raised |-> FALSE, chunks |-> <<>>]

----------------------------------------------------------------------------
(* app/api/routes.py *)

\* the checks of upload_document before its try block: 413, 415, or 0 to go on
Rejection(file) ==
    IF file.size > max_file_size THEN 413
    ELSE IF file.filename.ext \notin AllowedExtensions THEN 415
    ELSE 0

WriteFile(dir, file) ==
    [dir EXCEPT ![file.filename] = [exists |-> TRUE, text |-> file.content]]

\* except Exception: if os.path.exists(file_path): os.remove(file_path)
RemoveFile(dir, filename) == [dir EXCEPT ![filename] = NoFile]

\* the DocumentUpload returned by upload_document
DocumentUpload(result, filename, text, chunks) ==
    [id               |-> IF result.document_id = <<>> THEN <<>> ELSE result.document_id[1],
     filename         |-> filename,
     status           |-> "success",
     chunks_processed |-> Len(chunks),
     metadata         |-> <<[filename |-> filename, size |-> Len(text),
                             chunk_count |-> Len(chunks)]>>]

\* the DocumentUpload upload_documents_batch builds for a file that failed
FailedUpload(filename) ==
    [id |-> <<>>, filename |-> filename, status |-> "failed",
     chunks_processed |-> 0, metadata |-> <<>>]

\* pydantic validation of DocumentUpload: metadata is a required
\* DocumentMetadata, so metadata=None raises ValidationError
DocumentUploadValid(d) == d.metadata # <<>>

\* process_document on the file on disk, then add_documents: the part of
\* upload_document inside try.  code 500 is the HTTPException of its handler.
ProcessAndAdd(coll, dir, filename, dup_raises) ==
    IF ~dir[filename].exists
    THEN [code |-> 500, body |-> <<>>, coll |-> coll, dir |-> dir]
    ELSE LET text == dir[filename].text
             c == chunk_text(text, ModelChunkSize, ModelChunkOverlap)
             chunks == ProcessedChunks(filename, text, c.chunks)
             result == add_documents(coll, chunks, dup_raises)
         IN  IF c.raised
             THEN [code |-> 500, body |-> <<>>, coll |-> coll,
                   dir |-> RemoveFile(dir, filename)]
             ELSE IF result.raised
             THEN [code |-> 500, body |-> <<>>, coll |-> result.coll,
                   dir |-> RemoveFile(dir, filename)]
             ELSE [code |-> 200,
                   body |-> <<DocumentUpload(result, filename, text, chunks)>>,
                   coll |-> result.coll, dir |-> dir]

\* upload_document run without another request in between
UploadWhole(coll, dir, file, dup_raises) ==
    IF Rejection(file) # 0
    THEN [code |-> Rejection(file), body |-> <<>>, coll |-> coll, dir |-> dir]
    ELSE ProcessAndAdd(coll, WriteFile(dir, file), file.filename, dup_raises)

RECURSIVE BatchLoop(_, _, _, _, _, _)
\* the loop of upload_documents_batch from file i on
BatchLoop(coll, dir, files, i, results, dup_raises) ==
    IF i > Len(files)
    THEN [code |-> 200, results |-> results, coll |-> coll, dir |-> dir]
    ELSE LET u == UploadWhole(coll, dir, files[i], dup_raises)
         IN  IF u.code = 200
             THEN BatchLoop(u.coll, u.dir, files, i + 1,
                            results \o u.body, dup_raises)
             ELSE IF ~DocumentUploadValid(FailedUpload(files[i].filename))
             THEN [code |-> 500, results |-> <<>>, coll |-> u.coll, dir |-> u.dir]
             ELSE BatchLoop(u.coll, u.dir, files, i + 1,
                            Append(results, FailedUpload(files[i].filename)),
                            dup_raises)

RECURSIVE LastIndexOf(_, _)
\* the position of the last c in s, 0 when there is none
LastIndexOf(s, c) ==
    IF s = <<>> THEN 0
    ELSE IF s[Len(s)] = c THEN Len(s)
    ELSE LastIndexOf(SubSeq(s, 1, Len(s) - 1), c)

\* chunk_id.rsplit("_", 1)[0]: the document id get_all_documents groups by
rsplit_document_id(chunk_id) ==
    IF LastIndexOf(chunk_id, "_") = 0 THEN chunk_id
    ELSE SubSeq(chunk_id, 1, LastIndexOf(chunk_id, "_") - 1)

\* the stored chunks that belong to document_id
ChunksOf(coll, document_id) ==
    {i \in DOMAIN coll : rsplit_document_id(coll[i].id) = document_id}

HasChunksOf(coll, document_id) == ChunksOf(coll, document_id) # {}

UploadResponse(req, code, body, had_chunks) ==
    [op |-> "upload", kind |-> req.kind, target |-> req.target, file |-> req.file,
     code |-> code, body |-> body, had_chunks |-> had_chunks]

\* upload_document up to its first await (the write of the file), as called by
\* the upload route or by update_document after its delete
\* (was_indexed records whether the index held chunks of target when the
\* request arrived)
BeginUpload(r, kind, target, file) ==
    LET req == [pc |-> "written", kind |-> kind, target |-> target,
                file |-> file, text |-> <<>>,
                was_indexed |-> HasChunksOf(collection, target)]
    IN  IF Rejection(file) # 0
        THEN /\ response' = UploadResponse(req, Rejection(file), <<>>, FALSE)
             /\ UNCHANGED <<upload_dir, reqs>>
        ELSE /\ upload_dir' = WriteFile(upload_dir, file)
             /\ reqs' = [reqs EXCEPT ![r] = req]
             /\ UNCHANGED response

\* POST /documents/upload
UploadStart(r, file) ==
    /\ reqs[r].pc = "idle"
    /\ BeginUpload(r, "upload", <<>>, file)
    /\ UNCHANGED <<collection, units>>

\* PUT /documents/{document_id}/update: await delete_document(document_id),
\* then upload_document(file)
UpdateStart(r, document_id, file) ==
    /\ reqs[r].pc = "idle"
    /\ collection' = delete_document(collection, document_id).coll
    /\ BeginUpload(r, "update", document_id, file)
    /\ UNCHANGED units

\* process_document: read the file back from disk, chunk it; with no chunks
\* add_documents returns at once, otherwise it awaits the encoding of the chunks
UploadProcess(r) ==
    /\ reqs[r].pc = "written"
    /\ LET req == reqs[r]
           filename == req.file.filename
           disk == upload_dir[filename]
           c == chunk_text(disk.text, ModelChunkSize, ModelChunkOverlap)
       IN  IF disk.exists /\ ~c.raised /\ c.chunks # <<>>
           THEN /\ reqs' = [reqs EXCEPT ![r] = [req EXCEPT !.pc = "encoding",
                                                          !.text = disk.text]]
                /\ UNCHANGED <<upload_dir, response>>
           ELSE LET u == ProcessAndAdd(collection, upload_dir, filename, FALSE)
                IN  /\ reqs' = [reqs EXCEPT ![r] = Idle]
                    /\ upload_dir' = u.dir
                    /\ response' = UploadResponse(req, u.code, u.body, FALSE)
    /\ UNCHANGED <<collection, units>>

\* add_documents after the encoding: collection.add batch by batch, then the
\* response of upload_document
UploadAdd(r) ==
    /\ reqs[r].pc = "encoding"
    /\ \E dup_raises \in BOOLEAN :
        LET req == reqs[r]
            filename == req.file.filename
            c == chunk_text(req.text, ModelChunkSize, ModelChunkOverlap)
            chunks == ProcessedChunks(filename, req.text, c.chunks)
            result == add_documents(collection, chunks, dup_raises)
            had == HasChunksOf(collection, chunks[1].document_id)
        IN  /\ collection' = result.coll
            /\ reqs' = [reqs EXCEPT ![r] = Idle]
            /\ IF result.raised
               THEN /\ upload_dir' = RemoveFile(upload_dir, filename)
                    /\ response' = UploadResponse(req, 500, <<>>, had)
               ELSE /\ UNCHANGED upload_dir
                    /\ response' = UploadResponse(req, 200,
                            <<DocumentUpload(result, filename, req.text, chunks)>>, had)
    /\ UNCHANGED units

\* POST /documents/upload-batch
UploadBatch(files) ==
    /\ \E dup_raises \in BOOLEAN :
        LET b == BatchLoop(collection, upload_dir, files, 1, <<>>, dup_raises)
        IN  /\ collection' = b.coll
            /\ upload_dir' = b.dir
            /\ response' = [op |-> "upload_batch", files |-> files,
                            code |-> b.code, results |-> b.results]
    /\ UNCHANGED <<reqs, units>>

\* DELETE /documents/{document_id}
Delete(document_id) ==
    /\ LET result == delete_document(collection, document_id)
       IN  /\ collection' = result.coll
           /\ response' = [op |-> "delete", document_id |-> document_id, code |-> 200,
                           status |-> IF result.chunks_deleted > 0
                                      THEN "success" ELSE "not_found",
                           chunks_deleted |-> result.chunks_deleted]
    /\ UNCHANGED <<upload_dir, reqs, units>>

\* POST /search: search_documents forwards all four fields of SearchQuery
\* (document_ids is <<>> for None)
SearchDocuments(query, max_results, document_ids, similarity_threshold) ==
    /\ LET kwargs == [query |-> query, max_results |-> max_results,
                      document_ids |-> document_ids,
                      similarity_threshold |-> similarity_threshold]
           result == CallSearch(collection, kwargs)
       IN  response' = [op |-> "search_documents", request |-> kwargs,
                        code |-> IF result.raised THEN 500 ELSE 200,
                        results |-> result.results]
    /\ UNCHANGED <<collection, upload_dir, reqs, units>>

\* VectorStore.search called with its three parameters
Search(query, max_results, similarity_threshold) ==
    /\ LET kwargs == [query |-> query, max_results |-> max_results,
                      similarity_threshold |-> similarity_threshold]
           result == CallSearch(collection, kwargs)
       IN  response' = [op |-> "search", request |-> kwargs,
                        code |-> IF result.raised THEN 500 ELSE 200,
                        results |-> result.results]
    /\ UNCHANGED <<collection, upload_dir, reqs, units>>

----------------------------------------------------------------------------
(* QAService: the extractive answer and its confidence *)

UpperCase ==
    <<"A", "B", "C", "D", "E", "F", "G", "H", "I", "J", "K", "L", "M", "N",
      "O", "P", "Q", "R", "S", "T", "U", "V", "W", "X", "Y", "Z">>

LowerCase ==
    <<"a", "b", "c", "d", "e", "f", "g", "h", "i", "j", "k", "l", "m", "n",
      "o", "p", "q", "r", "s", "t", "u", "v", "w", "x", "y", "z">>

\* str.lower() of one character
LowerChar(c) ==
    IF \E i \in DOMAIN UpperCase : UpperCase[i] = c
    THEN LowerCase[CHOOSE i \in DOMAIN UpperCase : UpperCase[i] = c]
    ELSE c

lower(s) == [i \in DOMAIN s |-> LowerChar(s[i])]

\* "No relevant information found in the knowledge base."
NoInfoInKnowledgeBase ==
    <<"N", "o", " ", "r", "e", "l", "e", "v", "a", "n", "t", " ", "i", "n",
      "f", "o", "r", "m", "a", "t", "i", "o", "n", " ", "f", "o", "u", "n",
      "d", " ", "i", "n", " ", "t", "h", "e", " ", "k", "n", "o", "w", "l",
      "e", "d", "g", "e", " ", "b", "a", "s", "e", ".">>

\* "No relevant information found."
NoInfoFound ==
    <<"N", "o", " ", "r", "e", "l", "e", "v", "a", "n", "t", " ", "i", "n",
      "f", "o", "r", "m", "a", "t", "i", "o", "n", " ", "f", "o", "u", "n",
      "d", ".">>

\* "Based on the search results:\n\n"
FallbackPrefix ==
    <<"B", "a", "s", "e", "d", " ", "o", "n", " ", "t", "h", "e", " ", "s",
      "e", "a", "r", "c", "h", " ", "r", "e", "s", "u", "l", "t", "s", ":",
      "\n", "\n">>

Ellipsis == <<".", ".", ".">>

MinSentenceLen == 20   \* a sentence is kept when it is longer than this
TopChunks == 3         \* chunks[:3]
TopSentences == 3      \* scored_sentences[:3]
FallbackLen == 300     \* chunks[0].content[:300]
MaxAspects == 5        \* covered[:5], missing[:5]
CompletenessResults == 10   \* max_results of the search for a topic
ShownChunks == 3       \* relevant_chunks[:3]


RECURSIVE lstrip(_)
lstrip(s) == IF s # <<>> /\ Head(s) = " " THEN lstrip(Tail(s)) ELSE s

RECURSIVE rstrip(_)
rstrip(s) ==
    IF s # <<>> /\ s[Len(s)] = " " THEN rstrip(SubSeq(s, 1, Len(s) - 1)) ELSE s

strip(s) == rstrip(lstrip(s))

Terminators == {".", "!", "?"}

\* re.split(r'[.!?]+', text): the pieces between the maximal runs of
\* terminators; a piece starts at position 1 and after every run, and ends
\* before the next terminator or at the end of the text
re_split(text) ==
    LET n == Len(text)
        IsTerminator(i) == i \in 1..n /\ text[i] \in Terminators
        starts == {1} \cup {i \in 2..(n + 1) : IsTerminator(i - 1) /\ ~IsTerminator(i)}
        start == [r \in 1..Cardinality(starts) |->
                    CHOOSE b \in starts : Cardinality({c \in starts : c < b}) = r - 1]
        StopsFrom(b) == {j \in b..n : IsTerminator(j)} \cup {n + 1}
        EndOf(b) == (CHOOSE j \in StopsFrom(b) : \A k \in StopsFrom(b) : j <= k) - 1
    IN  [r \in 1..Cardinality(starts) |-> SubSeq(text, start[r], EndOf(start[r]))]

\* _extract_sentences: the stripped pieces longer than 20 characters
extract_sentences(text) ==
    LET pieces == re_split(text)
        stripped == [i \in DOMAIN pieces |-> strip(pieces[i])]
        Long(s) == Len(s) > MinSentenceLen
    IN  SelectSeq(stripped, Long)

\* set(text.lower().split())
WordSet(text) == LET w == split(lower(text)) IN {w[i] : i \in DOMAIN w}

RECURSIVE AllSentences(_, _)
\* all_sentences: (sentence, chunk score, filename) of chunks[i:3], chunk by chunk
AllSentences(chunks, i) ==
    IF i > Min(TopChunks, Len(chunks)) THEN <<>>
    ELSE LET s == extract_sentences(chunks[i].content)
         IN  [k \in DOMAIN s |-> [sent |-> s[k],
                                  chunk_score |-> chunks[i].similarity_score,
                                  filename |-> chunks[i].filename]]
                \o AllSentences(chunks, i + 1)

\* score = (word_overlap / len(question_words)) * 0.5 + chunk_score * 0.5 of a
\* candidate, as the integer 20 * len(question_words) * score (chunk scores are
\* in tenths); defined for a question of at least one word
Score(question_words, cand) ==
    10 * Cardinality(question_words \cap WordSet(cand.sent))
        + cand.chunk_score * Cardinality(question_words)


\* a floor of 0.4 on the scale of Score
ScoreFloorAboveRetrieval(question_words) == 8 * Cardinality(question_words)

\* 0.3 on the scale of Score
ScoreFloor(question_words) == 6 * Cardinality(question_words)

\* scored_sentences before the sort: (sentence, score, filename)
ScoredSentences(cands, question_words) ==
    LET Scored(c) == [sent |-> c.sent, score |-> Score(question_words, c),
                      filename |-> c.filename]
    IN  SubSeq([k \in DOMAIN cands |-> Scored(cands[k])], 1, Len(cands))

\* scored_sentences left in the order of all_sentences
SortedByEncounter(scored) == scored

RECURSIVE SortedByScore(_)
\* scored_sentences.sort(key=score, reverse=True): descending by score, equal
\* scores in their original order
SortedByScore(scored) ==
    IF scored = <<>> THEN <<>>
    ELSE LET last == scored[Len(scored)]
             init == SortedByScore(SubSeq(scored, 1, Len(scored) - 1))
             AtLeast(c) == c.score >= last.score
             Below(c) == c.score < last.score
         IN  SelectSeq(init, AtLeast) \o <<last>> \o SelectSeq(init, Below)

RECURSIVE AnswerParts(_, _, _, _)
\* the loop over scored_sentences[:3] from entry i on: parts holds answer_parts,
\* which lists the sentences of used_sentences
AnswerParts(top, i, parts, floor) ==
    IF i > Len(top) THEN parts
    ELSE IF /\ \A k \in DOMAIN parts : parts[k] # top[i].sent
            /\ top[i].score > floor
         THEN AnswerParts(top, i + 1, Append(parts, top[i].sent), floor)
         ELSE AnswerParts(top, i + 1, parts, floor)

\* _generate_extractive_answer(question, chunks); the division by
\* len(question_words) raises ZeroDivisionError at the first candidate sentence
\* of a question without words
generate_extractive_answer(question, chunks) ==
    IF chunks = <<>> THEN [raised |-> FALSE, answer |-> NoInfoFound]
    ELSE LET cands == AllSentences(chunks, 1)
             question_words == WordSet(question)
         IN  IF cands # <<>> /\ question_words = {}
             THEN [raised |-> TRUE, answer |-> <<>>]
             ELSE LET sorted == SortedByScore(ScoredSentences(cands, question_words))
                      parts == AnswerParts(Slice(sorted, 0, TopSentences), 1, <<>>,
                                           ScoreFloor(question_words))
                  IN  [raised |-> FALSE,
                       answer |-> IF parts = <<>>
                                  THEN FallbackPrefix
                                          \o Slice(chunks[1].content, 0, FallbackLen)
                                          \o Ellipsis
                                  ELSE join(parts)]

RECURSIVE SumScores(_)
SumScores(chunks) ==
    IF chunks = <<>> THEN 0
    ELSE chunks[1].similarity_score + SumScores(Tail(chunks))

\* a confidence that is the top score alone
calculate_confidenceTopOnly(chunks) ==
    IF chunks = <<>> THEN [num |-> 0, den |-> 1]
    ELSE [num |-> Min(chunks[1].similarity_score, 10), den |-> 10]

\* _calculate_confidence: min(avg * 0.4 + top * 0.6, 1.0) as the fraction
\* num / den, with den = 100 * len(chunks) for scores in tenths
calculate_confidence(chunks) ==
    IF chunks = <<>> THEN [num |-> 0, den |-> 1]
    ELSE LET n == Len(chunks)
         IN  [num |-> Min(4 * SumScores(chunks) + 6 * n * chunks[1].similarity_score,
                          100 * n),
              den |-> 100 * n]

\* answer_question without its guard for an empty retrieved list
answer_retrievedAlwaysExtracts(question, relevant_chunks) ==
    LET e == generate_extractive_answer(question, relevant_chunks)
    IN  [raised |-> e.raised, answer |-> e.answer,
         sources |-> IF e.raised THEN <<>> ELSE relevant_chunks,
         confidence |-> calculate_confidence(relevant_chunks)]

\* answer_question from the retrieved list on
answer_retrieved(question, relevant_chunks) ==
    IF relevant_chunks = <<>>
    THEN [raised |-> FALSE, answer |-> NoInfoInKnowledgeBase, sources |-> <<>>,
          confidence |-> [num |-> 0, den |-> 1]]
    ELSE LET e == generate_extractive_answer(question, relevant_chunks)
         IN  [raised |-> e.raised, answer |-> e.answer,
              sources |-> IF e.raised THEN <<>> ELSE relevant_chunks,
              confidence |-> calculate_confidence(relevant_chunks)]

\* QAService.answer_question(question, max_results): search with the default
\* threshold, then the answer
answer_question(coll, question, max_results) ==
    LET s == CallSearch(coll, [query |-> question, max_results |-> max_results])
    IN  IF s.raised
        THEN [raised |-> TRUE, answer |-> <<>>, sources |-> <<>>,
              confidence |-> [num |-> 0, den |-> 1]]
        ELSE answer_retrieved(question, s.results)

\* POST /qa/ask
AskQuestion(question, max_results) ==
    /\ LET a == answer_question(collection, question, max_results)
       IN  response' = [op |-> "ask",
                        request |-> [question |-> question, max_results |-> max_results],
                        code |-> IF a.raised THEN 500 ELSE 200,
                        answer |-> a.answer, sources |-> a.sources,
                        confidence |-> a.confidence]
    /\ UNCHANGED <<collection, upload_dir, reqs, units>>

----------------------------------------------------------------------------
(* QAService: completeness of the knowledge base for a list of topics *)

\* the words of the topic_aspects table of _analyze_coverage_locally
Str_machine_learning ==
    <<"m", "a", "c", "h", "i", "n", "e", " ", "l", "e", "a", "r", "n", "i",
      "n", "g">>

Str_supervised ==
    <<"s", "u", "p", "e", "r", "v", "i", "s", "e", "d">>

Str_unsupervised ==
    <<"u", "n", "s", "u", "p", "e", "r", "v", "i", "s", "e", "d">>

Str_reinforcement ==
    <<"r", "e", "i", "n", "f", "o", "r", "c", "e", "m", "e", "n", "t">>

Str_neural_networks ==
    <<"n", "e", "u", "r", "a", "l", " ", "n", "e", "t", "w", "o", "r", "k",
      "s">>

Str_training ==
    <<"t", "r", "a", "i", "n", "i", "n", "g">>

Str_models ==
    <<"m", "o", "d", "e", "l", "s">>

Str_deep_learning ==
    <<"d", "e", "e", "p", " ", "l", "e", "a", "r", "n", "i", "n", "g">>

Str_backpropagation ==
    <<"b", "a", "c", "k", "p", "r", "o", "p", "a", "g", "a", "t", "i", "o",
      "n">>

Str_layers ==
    <<"l", "a", "y", "e", "r", "s">>

Str_activation ==
    <<"a", "c", "t", "i", "v", "a", "t", "i", "o", "n">>

Str_convolution ==
    <<"c", "o", "n", "v", "o", "l", "u", "t", "i", "o", "n">>

Str_recurrent ==
    <<"r", "e", "c", "u", "r", "r", "e", "n", "t">>

Str_data_science ==
    <<"d", "a", "t", "a", " ", "s", "c", "i", "e", "n", "c", "e">>

Str_analysis ==
    <<"a", "n", "a", "l", "y", "s", "i", "s">>

Str_visualization ==
    <<"v", "i", "s", "u", "a", "l", "i", "z", "a", "t", "i", "o", "n">>

Str_statistics ==
    <<"s", "t", "a", "t", "i", "s", "t", "i", "c", "s">>

Str_cleaning ==
    <<"c", "l", "e", "a", "n", "i", "n", "g">>

Str_modeling ==
    <<"m", "o", "d", "e", "l", "i", "n", "g">>

Str_insights ==
    <<"i", "n", "s", "i", "g", "h", "t", "s">>

Str_artificial_intelligence ==
    <<"a", "r", "t", "i", "f", "i", "c", "i", "a", "l", " ", "i", "n", "t",
      "e", "l", "l", "i", "g", "e", "n", "c", "e">>

Str_nlp ==
    <<"n", "l", "p">>

Str_computer_vision ==
    <<"c", "o", "m", "p", "u", "t", "e", "r", " ", "v", "i", "s", "i", "o",
      "n">>

Str_reasoning ==
    <<"r", "e", "a", "s", "o", "n", "i", "n", "g">>

Str_supervised_learning ==
    <<"s", "u", "p", "e", "r", "v", "i", "s", "e", "d", " ", "l", "e", "a",
      "r", "n", "i", "n", "g">>

Str_classification ==
    <<"c", "l", "a", "s", "s", "i", "f", "i", "c", "a", "t", "i", "o", "n">>

Str_regression ==
    <<"r", "e", "g", "r", "e", "s", "s", "i", "o", "n">>

Str_labeled_data ==
    <<"l", "a", "b", "e", "l", "e", "d", " ", "d", "a", "t", "a">>

Str_prediction ==
    <<"p", "r", "e", "d", "i", "c", "t", "i", "o", "n">>

Str_unsupervised_learning ==
    <<"u", "n", "s", "u", "p", "e", "r", "v", "i", "s", "e", "d", " ", "l",
      "e", "a", "r", "n", "i", "n", "g">>

Str_clustering ==
    <<"c", "l", "u", "s", "t", "e", "r", "i", "n", "g">>

Str_dimensionality ==
    <<"d", "i", "m", "e", "n", "s", "i", "o", "n", "a", "l", "i", "t", "y">>

Str_patterns ==
    <<"p", "a", "t", "t", "e", "r", "n", "s">>

Str_unlabeled ==
    <<"u", "n", "l", "a", "b", "e", "l", "e", "d">>

Str_grouping ==
    <<"g", "r", "o", "u", "p", "i", "n", "g">>

Str_reinforcement_learning ==
    <<"r", "e", "i", "n", "f", "o", "r", "c", "e", "m", "e", "n", "t", " ",
      "l", "e", "a", "r", "n", "i", "n", "g">>

Str_agent ==
    <<"a", "g", "e", "n", "t">>

Str_environment ==
    <<"e", "n", "v", "i", "r", "o", "n", "m", "e", "n", "t">>

Str_reward ==
    <<"r", "e", "w", "a", "r", "d">>

Str_policy ==
    <<"p", "o", "l", "i", "c", "y">>

Str_action ==
    <<"a", "c", "t", "i", "o", "n">>

Str_state ==
    <<"s", "t", "a", "t", "e">>

\* topic_aspects, in the order of the dict
topic_aspects ==
    <<[key |-> Str_machine_learning,
       values |-> <<Str_supervised, Str_unsupervised, Str_reinforcement,
                    Str_neural_networks, Str_training, Str_models>>],
      [key |-> Str_deep_learning,
       values |-> <<Str_neural_networks, Str_backpropagation, Str_layers,
                    Str_activation, Str_convolution, Str_recurrent>>],
      [key |-> Str_data_science,
       values |-> <<Str_analysis, Str_visualization, Str_statistics,
                    Str_cleaning, Str_modeling, Str_insights>>],
      [key |-> Str_artificial_intelligence,
       values |-> <<Str_machine_learning, Str_neural_networks, Str_nlp,
                    Str_computer_vision, Str_reasoning>>],
      [key |-> Str_supervised_learning,
       values |-> <<Str_classification, Str_regression, Str_labeled_data,
                    Str_training, Str_prediction>>],
      [key |-> Str_unsupervised_learning,
       values |-> <<Str_clustering, Str_dimensionality, Str_patterns,
                    Str_unlabeled, Str_grouping>>],
      [key |-> Str_reinforcement_learning,
       values |-> <<Str_agent, Str_environment, Str_reward,
                    Str_policy, Str_action, Str_state>>]>>

CoverageOf ==
    <<"C", "o", "v", "e", "r", "a", "g", "e", " ", "o", "f", " ">>

PartialCoverageOf ==
    <<"P", "a", "r", "t", "i", "a", "l", " ", "c", "o", "v", "e", "r", "a",
      "g", "e", " ", "o", "f", " ">>

MissingInformationAbout ==
    <<"M", "i", "s", "s", "i", "n", "g", " ", "i", "n", "f", "o", "r", "m",
      "a", "t", "i", "o", "n", " ", "a", "b", "o", "u", "t", " ">>

GoodOverallCoverageOf ==
    <<"G", "o", "o", "d", " ", "o", "v", "e", "r", "a", "l", "l", " ", "c",
      "o", "v", "e", "r", "a", "g", "e", " ", "o", "f", " ">>

NoClearCoverageOf ==
    <<"N", "o", " ", "c", "l", "e", "a", "r", " ", "c", "o", "v", "e", "r",
      "a", "g", "e", " ", "o", "f", " ">>

NoInformationAbout ==
    <<"N", "o", " ", "i", "n", "f", "o", "r", "m", "a", "t", "i", "o", "n",
      " ", "a", "b", "o", "u", "t", " ">>

ExamplesSuffix ==
    <<" ", "e", "x", "a", "m", "p", "l", "e", "s">>

ConsiderAdding ==
    <<"C", "o", "n", "s", "i", "d", "e", "r", " ", "a", "d", "d", "i", "n",
      "g", " ", "m", "o", "r", "e", " ", "c", "o", "n", "t", "e", "n", "t",
      " ", "a", "b", "o", "u", "t", ":", " ">>

SignificantGaps ==
    <<"T", "h", "e", " ", "k", "n", "o", "w", "l", "e", "d", "g", "e", " ",
      "b", "a", "s", "e", " ", "h", "a", "s", " ", "s", "i", "g", "n", "i",
      "f", "i", "c", "a", "n", "t", " ", "g", "a", "p", "s", ".", " ", "C",
      "o", "n", "s", "i", "d", "e", "r", " ", "c", "o", "m", "p", "r", "e",
      "h", "e", "n", "s", "i", "v", "e", " ", "c", "o", "n", "t", "e", "n",
      "t", " ", "r", "e", "v", "i", "e", "w", ".">>

ExcellentCoverage ==
    <<"K", "n", "o", "w", "l", "e", "d", "g", "e", " ", "b", "a", "s", "e",
      " ", "h", "a", "s", " ", "e", "x", "c", "e", "l", "l", "e", "n", "t",
      " ", "c", "o", "v", "e", "r", "a", "g", "e", " ", "o", "f", " ", "t",
      "h", "e", " ", "s", "p", "e", "c", "i", "f", "i", "e", "d", " ", "t",
      "o", "p", "i", "c", "s", ".">>

SetOf(seq) == {seq[i] : i \in DOMAIN seq}

\* needle in text (substring test)
Contains(text, needle) ==
    \E i \in 0..(Len(text) - Len(needle)) : SubSeq(text, i + 1, i + Len(needle)) = needle

RECURSIVE JoinWith(_, _)
\* sep.join(words)
JoinWith(words, sep) ==
    IF words = <<>> THEN <<>>
    ELSE IF Len(words) = 1 THEN words[1]
    ELSE words[1] \o sep \o JoinWith(Tail(words), sep)

\* the values of the first key of topic_aspects with key in topic_lower or
\* topic_lower in key; none when no key matches
PredefinedAspects(topic_lower) ==
    LET Matches(i) == \/ Contains(topic_lower, topic_aspects[i].key)
                      \/ Contains(topic_aspects[i].key, topic_lower)
        hits == {i \in DOMAIN topic_aspects : Matches(i)}
    IN  IF hits = {} THEN <<>>
        ELSE topic_aspects[CHOOSE i \in hits : \A j \in hits : i <= j].values

\* topic_words + [f"{word} examples" for word in topic_words]
GeneratedAspects(topic_lower) ==
    LET topic_words == split(topic_lower)
    IN  topic_words \o [k \in DOMAIN topic_words |-> topic_words[k] \o ExamplesSuffix]

\* the entry of one aspect: covered when the aspect is in the content or shares
\* a word with it, missing otherwise
AspectEntry(aspect, content) ==
    IF Contains(content, lower(aspect))
    THEN [covered |-> TRUE, text |-> CoverageOf \o aspect]
    ELSE IF WordSet(aspect) \cap SetOf(split(content)) # {}
         THEN [covered |-> TRUE, text |-> PartialCoverageOf \o aspect]
         ELSE [covered |-> FALSE, text |-> MissingInformationAbout \o aspect]

\* a list returned whole
FirstFiveKeepsAll(entries) == entries

\* entries[:5]
FirstFive(entries) == Slice(entries, 0, MaxAspects)

\* the two lists _analyze_coverage_locally returns for the entries of the
\* aspects: the texts of the covered and of the missing ones, each with its
\* summary entry in front and cut to five entries
CoverageLists(topic, covered, missing) ==
    [covered |-> FirstFive((IF Len(covered) > Len(missing)
                            THEN <<GoodOverallCoverageOf \o topic>> ELSE <<>>)
                              \o covered),
     missing |-> FirstFive((IF Len(covered) <= Len(missing) /\ covered = <<>>
                            THEN <<NoClearCoverageOf \o topic>> ELSE <<>>)
                              \o missing)]

TextsOf(entries) == [k \in DOMAIN entries |-> entries[k].text]

CoverageOfEntries(topic, entries) ==
    LET IsCovered(e) == e.covered
        IsMissing(e) == ~e.covered
    IN  CoverageLists(topic, TextsOf(SelectSeq(entries, IsCovered)),
                      TextsOf(SelectSeq(entries, IsMissing)))

CoverageOfAspects(topic, aspects, content) ==
    CoverageOfEntries(topic,
        SubSeq([k \in DOMAIN aspects |-> AspectEntry(aspects[k], content)],
               1, Len(aspects)))

\* the predefined aspects, or the generated ones when there are none
AspectsOr(predefined, topic_lower) ==
    IF predefined # <<>> THEN predefined ELSE GeneratedAspects(topic_lower)

AspectsOf(topic_lower) == AspectsOr(PredefinedAspects(topic_lower), topic_lower)

\* _analyze_coverage_locally(topic, chunks)
analyze_coverage_locally(topic, chunks) ==
    CoverageOfAspects(topic, AspectsOf(lower(topic)),
                      join([k \in DOMAIN chunks |-> lower(chunks[k].content)]))

\* the CompletenessResult of a topic with retrieved chunks, from the lists of
\* _analyze_coverage_locally (coverage_score is the fraction num / den)
CoveredResult(topic, a, relevant_chunks) ==
    [topic |-> topic,
     coverage_score |->
         IF a.covered # <<>> \/ a.missing # <<>>
         THEN [num |-> Len(a.covered), den |-> Len(a.covered) + Len(a.missing)]
         ELSE [num |-> 0, den |-> 1],
     covered_aspects |-> a.covered,
     missing_aspects |-> a.missing,
     relevant_chunks |-> Slice(relevant_chunks, 0, ShownChunks)]

\* CompletenessResult of one topic from its retrieved list
topic_result(topic, relevant_chunks) ==
    IF relevant_chunks # <<>>
    THEN CoveredResult(topic, analyze_coverage_locally(topic, relevant_chunks),
                       relevant_chunks)
    ELSE [topic |-> topic,
          coverage_score |-> [num |-> 0, den |-> 1],
          covered_aspects |-> <<>>,
          missing_aspects |-> <<NoInformationAbout \o topic>>,
          relevant_chunks |-> <<>>]

RECURSIVE CompletenessLoop(_, _, _, _, _)
\* one turn of the loop of check_completeness: s is what the search for topic i
\* gave
CompletenessTurn(coll, topics, i, document_ids, results, s) ==
    IF s.raised THEN [raised |-> TRUE, results |-> <<>>]
    ELSE CompletenessLoop(coll, topics, i + 1, document_ids,
                          Append(results, topic_result(topics[i], s.results)))

\* the loop of check_completeness from topic i on; search is called with the
\* keywords query, max_results and document_ids
CompletenessLoop(coll, topics, i, document_ids, results) ==
    IF i > Len(topics) THEN [raised |-> FALSE, results |-> results]
    ELSE CompletenessTurn(coll, topics, i, document_ids, results,
                          CallSearch(coll, [query |-> topics[i],
                                            max_results |-> CompletenessResults,
                                            document_ids |-> document_ids]))

RECURSIVE SumOfScores(_)
\* sum(r.coverage_score for r in results) as a fraction
SumOfScores(results) ==
    IF results = <<>> THEN [num |-> 0, den |-> 1]
    ELSE LET rest == SumOfScores(Tail(results))
             first == results[1].coverage_score
         IN  [num |-> first.num * rest.den + rest.num * first.den,
              den |-> first.den * rest.den]

\* sum / len(results) if results else 0.0
MeanOf(sum, n) ==
    IF n = 0 THEN [num |-> 0, den |-> 1] ELSE [num |-> sum.num, den |-> sum.den * n]

overall_completeness(results) == MeanOf(SumOfScores(results), Len(results))

RECURSIVE MissingCount(_)
MissingCount(results) ==
    IF results = <<>> THEN 0
    ELSE Len(results[1].missing_aspects) + MissingCount(Tail(results))

\* _generate_recommendations(results)
generate_recommendations(results) ==
    LET Low(r) == 2 * r.coverage_score.num < r.coverage_score.den
        High(r) == 5 * r.coverage_score.num > 4 * r.coverage_score.den
        low == SelectSeq(results, Low)
        low_coverage_topics == [k \in DOMAIN low |-> low[k].topic]
    IN  (IF low # <<>>
         THEN <<ConsiderAdding \o JoinWith(low_coverage_topics, <<",", " ">>)>>
         ELSE <<>>)
        \o (IF MissingCount(results) > 5 THEN <<SignificantGaps>> ELSE <<>>)
        \o (IF Len(SelectSeq(results, High)) = Len(results)
            THEN <<ExcellentCoverage>> ELSE <<>>)

\* the CompletenessResponse of check_completeness after its loop
CompletenessOf(loop) ==
    IF loop.raised
    THEN [raised |-> TRUE, overall_completeness |-> [num |-> 0, den |-> 1],
          results |-> <<>>, recommendations |-> <<>>]
    ELSE [raised |-> FALSE,
          overall_completeness |-> overall_completeness(loop.results),
          results |-> loop.results,
          recommendations |-> generate_recommendations(loop.results)]

\* QAService.check_completeness(topics, document_ids)
check_completeness(coll, topics, document_ids) ==
    CompletenessOf(CompletenessLoop(coll, topics, 1, document_ids, <<>>))

\* the response of POST /qa/completeness
CompletenessResponse(topics, document_ids, c) ==
    [op |-> "check_completeness",
     request |-> [topics |-> topics, document_ids |-> document_ids],
     code |-> IF c.raised THEN 500 ELSE 200,
     overall_completeness |-> c.overall_completeness,
     results |-> c.results,
     recommendations |-> c.recommendations]

\* POST /qa/completeness (document_ids is <<>> for None)
CheckCompleteness(topics, document_ids) ==
    /\ response' = CompletenessResponse(topics, document_ids,
                        check_completeness(collection, topics, document_ids))
    /\ UNCHANGED <<collection, upload_dir, reqs, units>>

\* the topic lists of the completeness checks: no topic, one, two
TopicLists == {<<>>, << <<"a">> >>, << <<"a">>, <<"b">> >>}

Init ==
    /\ collection = <<>>
    /\ upload_dir = [f \in FileNames |-> NoFile]
    /\ reqs = [r \in Handlers |-> Idle]
    /\ response = [op |-> "none", code |-> 0]
    /\ ck = CkUnused
    /\ qa = <<>>
    /\ cov = <<>>

Next ==
    \/ \E r \in Workers, file \in Files : UploadStart(r, file)
    \/ \E r \in Workers, d \in UpdateIds, file \in Files : UpdateStart(r, d, file)
    \/ \E r \in Workers : UploadProcess(r)
    \/ \E r \in Workers : UploadAdd(r)
    \/ \E n \in 1..MaxBatch : \E files \in [1..n -> BatchFiles] : UploadBatch(files)
    \/ \E d \in DocumentIds : Delete(d)
    \/ \E q \in Queries, ids \in {<<>>, <<IdA>>} :
            SearchDocuments(q, DefaultMaxResults, ids, DefaultThreshold)
    \/ \E q \in Queries, n \in 0..MaxResults, t \in Thresholds : Search(q, n, t)
    \/ \E q \in Queries, n \in {0, MaxResults} : AskQuestion(q, n)
    \/ \E topics \in TopicLists : CheckCompleteness(topics, <<>>)

\* Spec: one upload or update in flight at a time, interleaved with the requests
\* that complete without suspending.
Spec == Init /\ [][Next]_vars

----------------------------------------------------------------------------
(* Properties of the service, checked under Spec *)

\* the step that completes a search, a delete, starts an update that goes on to
\* upload, or completes an upload
SearchStep ==
    /\ response'.op = "search"
    /\ Search(response'.request.query, response'.request.max_results,
              response'.request.similarity_threshold)
DeleteStep ==
    /\ response'.op = "delete"
    /\ Delete(response'.document_id)
UpdateAcceptedStep ==
    \E r \in Workers :
        /\ reqs[r].pc = "idle"
        /\ reqs'[r].pc # "idle"
        /\ reqs'[r].kind = "update"
        /\ UpdateStart(r, reqs'[r].target, reqs'[r].file)
UploadAddStep == \E r \in Workers : UploadAdd(r)
AllIdle == \A r \in Handlers : reqs[r].pc = "idle"

\* the stored chunks that rank before chunk i for the query: nearer, or as near
\* and stored earlier
RankedBefore(coll, query, i) ==
    {j \in DOMAIN coll :
        \/ Distance(query, coll[j].document) < Distance(query, coll[i].document)
        \/ /\ Distance(query, coll[j].document) = Distance(query, coll[i].document)
           /\ j < i}

\* the stored chunks a search has to return: among the max_results nearest and
\* with similarity 1 - distance at or above the threshold
Qualifying(coll, query, max_results, threshold) ==
    {i \in DOMAIN coll :
        /\ Cardinality(RankedBefore(coll, query, i)) < max_results
        /\ 10 - Distance(query, coll[i].document) >= threshold}

SearchContract(coll, request, results) ==
    LET want == Qualifying(coll, request.query, request.max_results,
                           request.similarity_threshold)
    IN  /\ Len(results) <= request.max_results
        /\ Len(results) = Cardinality(want)
        /\ \A k \in DOMAIN results :
              /\ results[k].similarity_score >= request.similarity_threshold
              /\ results[k].similarity_score <= 10
              /\ \E i \in want :
                    /\ results[k].chunk_id = coll[i].id
                    /\ results[k].content = coll[i].document
                    /\ results[k].similarity_score
                          = 10 - Distance(request.query, coll[i].document)
                    /\ Cardinality({j \in want : j \in RankedBefore(coll, request.query, i)})
                          = k - 1
        /\ \A k \in DOMAIN results : \A l \in DOMAIN results :
              k < l => results[k].similarity_score >= results[l].similarity_score

\* C1: a search that returns gives exactly the chunks among the max_results
\* nearest whose similarity 1 - distance is at least the threshold, in the
\* store's order: at most max_results entries, every similarity within
\* [threshold, 1.0], sorted by similarity descending.
C1_SearchContract ==
    [][(SearchStep /\ response'.code = 200)
          => SearchContract(collection, response'.request, response'.results)]_vars

\* a search whose threshold cut the nearest neighbours short
C1_Witness ==
    /\ response.op = "search"
    /\ response.code = 200
    /\ response.request.max_results = 2
    /\ response.request.similarity_threshold = 7
    /\ Len(response.results) = 1
    /\ Len(collection) >= 2

\* C2: a search given a non-empty list of document ids completes and returns
\* only chunks of those documents.
C2_FilteredSearch ==
    (response.op = "search_documents" /\ response.request.document_ids # <<>>) =>
        /\ response.code = 200
        /\ \A k \in DOMAIN response.results :
              \E i \in DOMAIN response.request.document_ids :
                 rsplit_document_id(response.results[k].chunk_id)
                    = response.request.document_ids[i]

\* C3: a search request that carries no document filter completes without
\* error and returns a list, empty when the query is empty or nothing is indexed.
C3_PlainSearch ==
    [][(response'.op = "search_documents" /\ response'.request.document_ids = <<>>) =>
          /\ response'.code = 200
          /\ (response'.request.query = <<>> \/ collection' = <<>>)
                => response'.results = <<>>]_vars

\* C4: deleting a document id that owns no stored chunk returns
\* chunks_deleted = 0 and "not_found" and leaves the store as it was; a delete
\* of d that follows a delete of d returns chunks_deleted = 0 and "not_found".
C4_DeleteAbsent ==
    [][DeleteStep =>
          /\ ~HasChunksOf(collection, response'.document_id) =>
                /\ response'.chunks_deleted = 0
                /\ response'.status = "not_found"
                /\ collection' = collection
          /\ (response.op = "delete" /\ response.document_id = response'.document_id) =>
                /\ response'.chunks_deleted = 0
                /\ response'.status = "not_found"]_vars

\* a second delete of an id whose first delete removed chunks
C4_Witness ==
    /\ response.op = "delete"
    /\ response.document_id = ChunkId(IdA, 0)
    /\ response.status = "not_found"
    /\ HasChunksOf(collection, IdA)

UploadedOk(resp) ==
    /\ resp.op = "upload"
    /\ resp.code = 200
    /\ resp.body[1].id # <<>>

\* C5: after an upload that reported id d and k chunks into an index that held
\* no chunk of d, delete(d) returns "success" with chunks_deleted = k, removes
\* exactly the chunks d_0 .. d_(k-1) and leaves every other chunk in place.
C5_DeleteUploaded ==
    [][(/\ UploadedOk(response)
        /\ ~response.had_chunks
        /\ AllIdle
        /\ DeleteStep
        /\ response'.document_id = response.body[1].id)
          => LET d == response.body[1].id
                 k == response.body[1].chunks_processed
                 Other(c) == \A i \in 0..(k - 1) : c.id # ChunkId(d, i)
             IN  /\ response'.status = "success"
                 /\ response'.chunks_deleted = k
                 /\ collection' = SelectSeq(collection, Other)
                 /\ Len(collection') = Len(collection) - k
                 /\ \A i \in DOMAIN collection :
                       rsplit_document_id(collection[i].id) # d
                          => \E j \in DOMAIN collection' : collection'[j] = collection[i]]_vars

\* a document of two chunks deleted while another document stays indexed
C5_Witness ==
    /\ response.op = "delete"
    /\ response.document_id = IdA
    /\ response.chunks_deleted = 2
    /\ HasChunksOf(collection, IdB)
    /\ ~HasChunksOf(collection, IdA)

\* C6: an update is a delete followed by an upload that suspends before it adds:
\* once the update has started its document's chunks are gone while the request
\* is still in flight, a search at that moment returns only what is stored (so
\* none of them), and the update's add puts the document's chunks back.
C6_UpdateNotAtomic ==
    [][/\ UpdateAcceptedStep
            => \E r \in Workers :
                  /\ reqs'[r].pc = "written"
                  /\ ~HasChunksOf(collection', reqs'[r].target)
       /\ (SearchStep /\ response'.code = 200)
            => \A k \in DOMAIN response'.results :
                  \E i \in DOMAIN collection :
                     collection[i].id = response'.results[k].chunk_id
       /\ (UploadAddStep /\ response'.code = 200)
            => HasChunksOf(collection', response'.body[1].id)]_vars

\* a search during the update of an indexed document that found nothing, though
\* it would return the document's chunks whenever they are stored
C6_Witness ==
    \E r \in Workers :
        /\ reqs[r].kind = "update"
        /\ reqs[r].pc = "encoding"
        /\ reqs[r].target = IdA
        /\ reqs[r].file = DocA
        /\ reqs[r].was_indexed
        /\ response.op = "search"
        /\ response.request = [query |-> <<"b">>, max_results |-> 2,
                               similarity_threshold |-> 0]
        /\ response.code = 200
        /\ response.results = <<>>

\* C7: a batch upload returns one result per file, in order: "failed" for a
\* file that fails and the success result for every other file.
C7_BatchContinues ==
    response.op = "upload_batch" =>
        /\ response.code = 200
        /\ Len(response.results) = Len(response.files)
        /\ \A i \in DOMAIN response.results :
              /\ response.results[i].filename = response.files[i].filename
              /\ response.results[i].status =
                    IF Rejection(response.files[i]) # 0 THEN "failed" ELSE "success"

\* C8: an upload that yields no chunks is not reported as a success: every
\* "success" response has chunks_processed > 0 and a non-empty document id.
C8_NoEmptySuccess ==
    (response.op = "upload" /\ response.code = 200
        /\ response.body[1].status = "success") =>
            /\ response.body[1].chunks_processed > 0
            /\ response.body[1].id # <<>>

\* what the store holds: chunk ids with their contents, and how many
StoreView(coll) ==
    [chunks |-> {<<coll[i].id, coll[i].document>> : i \in DOMAIN coll},
     count  |-> Len(coll)]

\* C9: uploading a file again right after an upload of the same file indexed it
\* derives the same document id and chunk ids, and leaves the store with the
\* same chunk ids, contents and chunk count.
C9_ReuploadIdempotent ==
    [][(/\ UploadedOk(response)
        /\ response.body[1].id
              = generate_document_id(response.file.filename, response.file.content)
        /\ UploadAddStep
        /\ response'.kind = "upload"
        /\ response'.file = response.file)
          => /\ StoreView(collection') = StoreView(collection)
             /\ response'.code = 200 =>
                   /\ response'.body[1].id = response.body[1].id
                   /\ response'.body[1].chunks_processed
                         = response.body[1].chunks_processed
                   /\ \A i \in 0..(response.body[1].chunks_processed - 1) :
                         Cardinality({j \in DOMAIN collection' :
                            collection'[j].id = ChunkId(response.body[1].id, i)}) = 1]_vars

\* a second upload of a document that found its chunks already stored
C9_Witness ==
    /\ UploadedOk(response)
    /\ response.kind = "upload"
    /\ response.file = DocA
    /\ response.body[1].id = IdA
    /\ response.had_chunks
    /\ Len(collection) = 2

----------------------------------------------------------------------------
(* The chunker on its own: one call on every text, size and overlap *)

CkInit ==
    /\ ck \in [text : TextsUpTo(MaxLen), size : 1..MaxSize, overlap : 0..MaxSize,
               called : {FALSE}, raised : {FALSE}, chunks : {<<>>}]
    /\ collection = <<>>
    /\ upload_dir = <<>>
    /\ reqs = <<>>
    /\ response = <<>>
    /\ qa = <<>>
    /\ cov = <<>>

CallChunkText ==
    /\ ~ck.called
    /\ LET r == chunk_text(ck.text, ck.size, ck.overlap)
       IN  ck' = [ck EXCEPT !.called = TRUE, !.raised = r.raised, !.chunks = r.chunks]
    /\ UNCHANGED <<collection, upload_dir, reqs, response, qa, cov>>

CkNext == CallChunkText

SpecChunk == CkInit /\ [][CkNext]_vars

\* ceil(a / b) for a >= 0, b > 0
CeilDiv(a, b) == (a + b - 1) \div b

NWords(text) == Len(split(text))

\* C10 (as stated): with overlap < size the chunker returns
\* ceil(max(0, N - O) / (S - O)) chunks for N > 0 words and none for N = 0.
C10_AsStated ==
    (ck.called /\ ck.overlap < ck.size) =>
        /\ ~ck.raised
        /\ Len(ck.chunks) =
              IF NWords(ck.text) > 0
              THEN CeilDiv(Max(0, NWords(ck.text) - ck.overlap), ck.size - ck.overlap)
              ELSE 0

\* C10 (amended): with overlap < size the chunker returns ceil(N / (S - O))
\* chunks for a text of N words: one window per start 0, S-O, 2(S-O), ... < N.
C10_ChunkCount ==
    (ck.called /\ ck.overlap < ck.size) =>
        /\ ~ck.raised
        /\ Len(ck.chunks) = CeilDiv(NWords(ck.text), ck.size - ck.overlap)

C10_Witness ==
    /\ ck.called
    /\ ck.overlap > 0
    /\ ck.overlap < ck.size
    /\ NWords(ck.text) = 2
    /\ Len(ck.chunks) = 2

\* the last n and the first n words of a chunk
LastWords(chunk, n) == SubSeq(split(chunk), Len(split(chunk)) - n + 1, Len(split(chunk)))

FirstWords(chunk, n) == SubSeq(split(chunk), 1, n)

\* C11 (as stated): for a text of N >= S words and overlap O < S every pair of
\* consecutive chunks, the pair formed with the final chunk included, shares
\* exactly O words: the last O words of chunk i are the first O words of chunk i+1.
C11_AsStated ==
    (ck.called /\ ck.overlap < ck.size /\ NWords(ck.text) >= ck.size) =>
        \A i \in 1..(Len(ck.chunks) - 1) :
            /\ NWords(ck.chunks[i]) >= ck.overlap
            /\ NWords(ck.chunks[i + 1]) >= ck.overlap
            /\ LastWords(ck.chunks[i], ck.overlap) = FirstWords(ck.chunks[i + 1], ck.overlap)

\* C11 (amended): for a text of N >= S words and overlap O < S every pair of
\* consecutive chunks shares min(O, words of chunk i+1) words: that many last
\* words of chunk i are the first words of chunk i+1, so a trailing chunk
\* shorter than O lies wholly inside its predecessor.
C11_ChunkOverlap ==
    (ck.called /\ ck.overlap < ck.size /\ NWords(ck.text) >= ck.size) =>
        \A i \in 1..(Len(ck.chunks) - 1) :
            LET m == Min(ck.overlap, NWords(ck.chunks[i + 1]))
            IN  /\ NWords(ck.chunks[i]) >= m
                /\ NWords(ck.chunks[i + 1]) <= NWords(ck.chunks[i])
                /\ LastWords(ck.chunks[i], m) = FirstWords(ck.chunks[i + 1], m)

C11_Witness ==
    /\ ck.called
    /\ ck.size = 3
    /\ ck.overlap = 2
    /\ NWords(ck.text) = 3
    /\ Len(ck.chunks) = 3
    /\ NWords(ck.chunks[3]) = 1

\* C12 (as stated): with overlap >= size the chunker fails with a configuration
\* error for every input text, empty or not, overlap equal or larger: no chunk
\* list is returned.
C12_OverlapRejected ==
    (ck.called /\ ck.overlap >= ck.size) => ck.raised

----------------------------------------------------------------------------
(* Rejected uploads and the document id of a search result *)

\* a request answered 415: an upload, or an update after its delete
UnsupportedTypeStep ==
    /\ response'.op = "upload"
    /\ response'.code = 415
    /\ \E r \in Workers :
          IF response'.kind = "update"
          THEN UpdateStart(r, response'.target, response'.file)
          ELSE UploadStart(r, response'.file)

\* C16: a request rejected for an unsupported file type, a plain upload and
\* equally an update of an existing document id, leaves the vector store with
\* exactly the chunks it held before the request.
C16_RejectedBeforeIndexing ==
    [][UnsupportedTypeStep => collection' = collection]_vars

\* C17: every SearchResult carries the document id of the owning document: its
\* document_id is its chunk_id without the final "_<index>".
C17_ResultDocumentId ==
    (response.op = "search" /\ response.code = 200) =>
        \A k \in DOMAIN response.results :
            response.results[k].document_id
                = rsplit_document_id(response.results[k].chunk_id)


----------------------------------------------------------------------------
(* Properties of POST /qa/ask, checked under Spec *)

\* the step that answers a question
AskStep ==
    /\ response'.op = "ask"
    /\ AskQuestion(response'.request.question, response'.request.max_results)

\* C13: when retrieval returns no chunks (none of the max_results nearest
\* chunks reaches the default threshold), answer_question returns the fixed
\* no-information message, empty sources and confidence 0.0, whatever the
\* question and the index.
C13_NoChunksAnswer ==
    [][(/\ AskStep
        /\ response'.request.max_results >= 1
        /\ Qualifying(collection, response'.request.question,
                      response'.request.max_results, DefaultThreshold) = {})
          => /\ response'.code = 200
             /\ response'.answer = NoInfoInKnowledgeBase
             /\ response'.sources = <<>>
             /\ response'.confidence.num = 0]_vars

\* a question asked of a non-empty index that has nothing similar enough
C13_Witness ==
    /\ response.op = "ask"
    /\ response.code = 200
    /\ response.request.question # <<>>
    /\ collection # <<>>
    /\ response.sources = <<>>
    /\ response.answer = NoInfoInKnowledgeBase

\* C15: check_completeness on a list of topics without document_ids completes
\* without error and returns one result per topic, in order, with
\* overall_completeness the mean of the topics' coverage scores (0.0 for no
\* topics); a topic with no retrieved chunk has coverage_score 0.0, no covered
\* aspect and a non-empty list of missing aspects.
C15_CompletenessReport ==
    (response.op = "check_completeness" /\ response.request.document_ids = <<>>) =>
        LET topics == response.request.topics
            results == response.results
        IN  /\ response.code = 200
            /\ Len(results) = Len(topics)
            /\ \A i \in DOMAIN results :
                  /\ results[i].topic = topics[i]
                  /\ results[i].relevant_chunks = <<>> =>
                        /\ results[i].coverage_score.num = 0
                        /\ results[i].covered_aspects = <<>>
                        /\ results[i].missing_aspects # <<>>
            /\ response.overall_completeness.num * SumOfScores(results).den * Len(results)
                  = SumOfScores(results).num * response.overall_completeness.den
----------------------------------------------------------------------------
(* The answer on its own: answer_question from its retrieved list on, for   *)
(* every question and every list a search can return                       *)

\* a word long enough to make a sentence of a one-letter word and itself
Pad == [i \in 1..(MinSentenceLen - 1) |-> "x"]

SentenceA == <<"a", " ">> \o Pad
SentenceB == <<"b", " ">> \o Pad
SentenceC == <<"c", " ">> \o Pad

\* 20 characters: not a sentence for _extract_sentences
TooShort == <<"a", " ">> \o SubSeq(Pad, 1, MinSentenceLen - 2)

TextTwo == SentenceA \o <<".", " ">> \o SentenceB \o <<"!">>
TextRepeat ==
    SentenceA \o <<".">> \o SentenceA \o <<"?", "!", " ">> \o SentenceB
        \o <<".">> \o SentenceC
TextShort == TooShort \o <<".">>

Questions == {<<>>, <<" ">>, <<"a">>, <<"A", " ", "b">>, <<"c">>}

AnswerScores == {3, 7, 10}

RetrievedChunks ==
    [content : {TextTwo, TextRepeat, TextShort}, similarity_score : AnswerScores,
     filename : {FTxt}]

\* the lists a search returns: most similar first
RetrievedLists ==
    {l \in UNION {[1..n -> RetrievedChunks] : n \in 0..MaxRetrieved} :
        \A i \in 1..(Len(l) - 1) : l[i].similarity_score >= l[i + 1].similarity_score}

QaInit ==
    /\ qa \in {[question |-> q, chunks |-> l, called |-> FALSE, raised |-> FALSE,
                answer |-> <<>>, sources |-> <<>>, confidence |-> [num |-> 0, den |-> 1]] :
                    q \in Questions, l \in RetrievedLists}
    /\ collection = <<>>
    /\ upload_dir = <<>>
    /\ reqs = <<>>
    /\ response = <<>>
    /\ ck = <<>>
    /\ cov = <<>>

AnswerRetrieved ==
    /\ ~qa.called
    /\ LET a == answer_retrieved(qa.question, qa.chunks)
       IN  qa' = [qa EXCEPT !.called = TRUE, !.raised = a.raised, !.answer = a.answer,
                            !.sources = a.sources, !.confidence = a.confidence]
    /\ UNCHANGED <<collection, upload_dir, reqs, response, ck, cov>>

QaNext == AnswerRetrieved

SpecAnswer == QaInit /\ [][QaNext]_vars

\* a / b <= c / d for fractions with positive denominators
LeqFraction(x, y) == x.num * y.den <= y.num * x.den

\* the retrieved list with another similarity for its first chunk
WithTopScore(chunks, t) == [chunks EXCEPT ![1].similarity_score = t]

\* C14: for a non-empty retrieved list the confidence is
\* min(1.0, 0.4 * mean similarity + 0.6 * similarity of the first chunk); it lies
\* in [0, 1] for similarities in [0, 1] and does not decrease when the first
\* chunk's similarity grows with the others fixed.
C14_Confidence ==
    (qa.called /\ ~qa.raised /\ qa.chunks # <<>>) =>
        LET n == Len(qa.chunks)
            top == qa.chunks[1].similarity_score
            tenths == 4 * SumScores(qa.chunks) + 6 * n * top
        IN  /\ qa.confidence.den > 0
            /\ qa.confidence.num * 100 * n = qa.confidence.den * Min(100 * n, tenths)
            /\ 0 <= qa.confidence.num
            /\ qa.confidence.num <= qa.confidence.den
            /\ \A t \in 0..10 :
                  /\ t >= top => LeqFraction(qa.confidence,
                                     calculate_confidence(WithTopScore(qa.chunks, t)))
                  /\ t <= top => LeqFraction(calculate_confidence(WithTopScore(qa.chunks, t)),
                                     qa.confidence)

\* two chunks of similarity 1.0 and 0.3: confidence 0.4 * 0.65 + 0.6 * 1.0 = 0.86
C14_Witness ==
    /\ qa.called
    /\ ~qa.raised
    /\ Len(qa.chunks) = 2
    /\ qa.chunks[1].similarity_score = 10
    /\ qa.chunks[2].similarity_score = 3
    /\ qa.confidence = [num |-> 172, den |-> 200]

\* C18: sentence scoring never raises: for every question, the empty and the
\* whitespace-only one included, and every non-empty retrieved list the
\* extractive answer step returns an answer.
C18_ScoringNeverRaises ==
    (qa.called /\ qa.chunks # <<>>) => (~qa.raised /\ qa.answer # <<>>)

\* the scored sentences that come before entry k when sorted by score
\* descending, ties in encounter order
BeforeInOrder(scored, k) ==
    {j \in DOMAIN scored :
        \/ scored[j].score > scored[k].score
        \/ scored[j].score = scored[k].score /\ j < k}

\* the candidate sentences of the first three chunks in that order
InScoreOrder(chunks, question_words) ==
    LET scored == ScoredSentences(AllSentences(chunks, 1), question_words)
        ranked == [r \in DOMAIN scored |->
                      scored[CHOOSE k \in DOMAIN scored :
                                Cardinality(BeforeInOrder(scored, k)) = r - 1]]
    IN  SubSeq(ranked, 1, Len(scored))

\* entry i of the order scores above 0.3 and repeats no earlier entry
QualifiesAt(ord, question_words, i) ==
    /\ ord[i].score > ScoreFloor(question_words)
    /\ \A j \in 1..(i - 1) : ord[j].sent # ord[i].sent

\* the sentences of the entries in picked, in order, joined with single spaces
JoinedSentences(ord, picked) ==
    LET InPicked(i) == i \in picked
        idx == SelectSeq([i \in DOMAIN ord |-> i], InPicked)
    IN  join([k \in DOMAIN idx |-> ord[idx[k]].sent])

\* the first three qualifying entries of the whole order
FirstThreeQualifying(ord, question_words) ==
    {i \in DOMAIN ord :
        /\ QualifiesAt(ord, question_words, i)
        /\ Cardinality({e \in 1..(i - 1) : QualifiesAt(ord, question_words, e)})
              < TopSentences}

\* the qualifying entries among the first three of the order
QualifyingOfTopThree(ord, question_words) ==
    {i \in DOMAIN ord : i <= TopSentences /\ QualifiesAt(ord, question_words, i)}

\* C19 (as stated): the answer joins, with single spaces, the first three
\* distinct sentences with score > 0.3 met when walking all candidate sentences
\* of the first three chunks by score descending, ties in encounter order
\* (fewer only when fewer such sentences exist).
C19_AsStated ==
    (qa.called /\ ~qa.raised /\ qa.chunks # <<>>) =>
        LET question_words == WordSet(qa.question)
            ord == InScoreOrder(qa.chunks, question_words)
            picked == FirstThreeQualifying(ord, question_words)
        IN  picked # {} => qa.answer = JoinedSentences(ord, picked)

\* C19 (amended): the answer joins, with single spaces, those of the first
\* three entries of that order that score > 0.3 and repeat no earlier entry;
\* later entries are never examined.
C19_TopThreeOnly ==
    (qa.called /\ ~qa.raised /\ qa.chunks # <<>>) =>
        LET question_words == WordSet(qa.question)
            ord == InScoreOrder(qa.chunks, question_words)
            picked == QualifyingOfTopThree(ord, question_words)
        IN  picked # {} => qa.answer = JoinedSentences(ord, picked)

\* a repeated sentence among the first three entries and a further qualifying
\* sentence behind them: the answer has two sentences
C19_Witness ==
    /\ qa.called
    /\ ~qa.raised
    /\ qa.chunks # <<>>
    /\ LET question_words == WordSet(qa.question)
           ord == InScoreOrder(qa.chunks, question_words)
       IN  /\ Cardinality(QualifyingOfTopThree(ord, question_words)) = 2
           /\ \E i \in DOMAIN ord : i > TopSentences /\ QualifiesAt(ord, question_words, i)
           /\ qa.answer = JoinedSentences(ord, QualifyingOfTopThree(ord, question_words))

----------------------------------------------------------------------------
(* The coverage of one topic on its own: the result check_completeness      *)
(* builds from the list retrieved for the topic                            *)

ContentNeural ==
    <<"N", "e", "u", "r", "a", "l", " ", "n", "e", "t", "w", "o", "r", "k",
      "s", " ", "u", "s", "e", " ", "l", "a", "y", "e", "r", "s", " ", "a",
      "n", "d", " ", "a", "c", "t", "i", "v", "a", "t", "i", "o", "n">>

ContentBackprop ==
    <<"b", "a", "c", "k", "p", "r", "o", "p", "a", "g", "a", "t", "i", "o",
      "n", " ", "c", "o", "n", "v", "o", "l", "u", "t", "i", "o", "n", " ",
      "r", "e", "c", "u", "r", "r", "e", "n", "t">>

ContentXz ==
    <<"x", " ", "a", "n", "d", " ", "z", " ", "e", "x", "a", "m", "p", "l",
      "e", "s">>

ContentSupervised ==
    <<"s", "u", "p", "e", "r", "v", "i", "s", "e", "d">>

TopicDeep ==
    <<"D", "e", "e", "p", " ", "L", "e", "a", "r", "n", "i", "n", "g">>

TopicXyz ==
    <<"x", " ", "y", " ", "z">>

TopicA ==
    <<"a">>

TopicIntro ==
    <<"i", "n", "t", "r", "o", " ", "t", "o", " ", "d", "e", "e", "p", " ",
      "l", "e", "a", "r", "n", "i", "n", "g">>

TopicSpaces == <<" ", " ">>

Topics == {<<>>, TopicSpaces, TopicDeep, TopicXyz, TopicA, TopicIntro}

CoveredChunks ==
    [content : {ContentNeural, ContentBackprop, ContentXz, ContentSupervised},
     similarity_score : {DefaultThreshold}, filename : {FTxt}]

CovInit ==
    /\ cov \in [topic : Topics,
                chunks : UNION {[1..n -> CoveredChunks] : n \in 0..MaxCovered},
                called : {FALSE}, result : {<<>>}]
    /\ collection = <<>>
    /\ upload_dir = <<>>
    /\ reqs = <<>>
    /\ response = <<>>
    /\ ck = <<>>
    /\ qa = <<>>

AnalyzeTopic ==
    /\ ~cov.called
    /\ cov' = [cov EXCEPT !.called = TRUE, !.result = topic_result(cov.topic, cov.chunks)]
    /\ UNCHANGED <<collection, upload_dir, reqs, response, ck, qa>>

CovNext == AnalyzeTopic

SpecCoverage == CovInit /\ [][CovNext]_vars

\* C20: for a topic with at least one retrieved chunk the covered and the
\* missing list each have at most 5 entries, summary entries included, at least
\* one of them is non-empty, and coverage_score is |covered| / (|covered| +
\* |missing|) of the returned lists: within [0, 1], and 0.0 exactly when covered
\* is empty.
C20_CoverageLists ==
    (cov.called /\ cov.chunks # <<>>) =>
        LET covered == cov.result.covered_aspects
            missing == cov.result.missing_aspects
            score == cov.result.coverage_score
        IN  /\ Len(covered) <= 5
            /\ Len(missing) <= 5
            /\ covered # <<>> \/ missing # <<>>
            /\ score.den > 0
            /\ score.num * (Len(covered) + Len(missing)) = score.den * Len(covered)
            /\ 0 <= score.num
            /\ score.num <= score.den
            /\ score.num = 0 <=> covered = <<>>

\* all six aspects of deep learning covered: the summary entry and four aspects
\* are returned
C20_Witness ==
    /\ cov.called
    /\ cov.topic = TopicDeep
    /\ Len(cov.chunks) = 2
    /\ cov.result.covered_aspects
          = <<GoodOverallCoverageOf \o TopicDeep, CoverageOf \o Str_neural_networks,
              CoverageOf \o Str_backpropagation, CoverageOf \o Str_layers,
              CoverageOf \o Str_activation>>
    /\ cov.result.missing_aspects = <<>>
    /\ cov.result.coverage_score = [num |-> 5, den |-> 5]

----------------------------------------------------------------------------
(* Two uploads in flight: both handlers take uploads of the same filename   *)
(* with different contents, interleaved at the awaits of upload_document   *)

ConcurrentFiles == {DocA, DocB}

ConcurrentNext ==
    \/ \E r \in Handlers, file \in ConcurrentFiles : UploadStart(r, file)
    \/ \E r \in Handlers : UploadProcess(r)
    \/ \E r \in Handlers : UploadAdd(r)

SpecConcurrent == Init /\ [][ConcurrentNext]_vars

\* the chunks an upload of file has to index: those of the bytes it carried
OwnChunks(file) ==
    ProcessedChunks(file.filename, file.content,
                    chunk_text(file.content, ModelChunkSize, ModelChunkOverlap).chunks)

\* C21: under any interleaving of two concurrent uploads of the same filename
\* with different contents, an upload reads back and indexes the bytes of its
\* own request: every chunk it writes to the vector store has the document id
\* and the content derived from that request's content, and the id it reports
\* is that document id.
C21_OwnBytesIndexed ==
    [][\A r \in Handlers :
          (reqs[r].pc = "encoding" /\ UploadAdd(r)) =>
              /\ reqs[r].text = reqs[r].file.content
              /\ \A i \in DOMAIN collection' :
                    i > Len(collection) =>
                        \E k \in DOMAIN OwnChunks(reqs[r].file) :
                            /\ collection'[i].id = OwnChunks(reqs[r].file)[k].chunk_id
                            /\ collection'[i].document = OwnChunks(reqs[r].file)[k].content
              /\ response'.code = 200 =>
                    response'.body[1].id
                        = generate_document_id(reqs[r].file.filename, reqs[r].file.content)]_vars

----------------------------------------------------------------------------
(* The answer for what answer_question retrieves: search is called without  *)
(* a threshold, so every retrieved chunk has similarity >= 0.7             *)

\* a retrieved list as search returns it under the default threshold
RetrievedAtDefault(chunks) ==
    \A k \in DOMAIN chunks : chunks[k].similarity_score >= DefaultThreshold

\* none of the first three chunks has a fragment longer than 20 characters
\* after trimming
NoCandidateSentence(chunks) ==
    \A i \in DOMAIN chunks :
        i <= TopChunks =>
            \A p \in DOMAIN re_split(chunks[i].content) :
                Len(strip(re_split(chunks[i].content)[p])) <= MinSentenceLen

\* the answer that shows the first 300 characters of the first chunk
FallbackAnswer(chunks) ==
    FallbackPrefix \o Slice(chunks[1].content, 0, FallbackLen) \o Ellipsis

\* C22: for a question of at least one word and a non-empty list retrieved
\* with the default threshold 0.7, every candidate sentence scores at least
\* 0.35, above 0.3, and the fallback answer is returned if and only if the
\* first three retrieved chunks yield no candidate sentence.
C22_FallbackOnlyWithoutCandidates ==
    (/\ qa.called
     /\ qa.chunks # <<>>
     /\ WordSet(qa.question) # {}
     /\ RetrievedAtDefault(qa.chunks)) =>
        LET question_words == WordSet(qa.question)
            cands == AllSentences(qa.chunks, 1)
        IN  /\ ~qa.raised
            /\ \A k \in DOMAIN cands :
                  /\ Score(question_words, cands[k]) >= 7 * Cardinality(question_words)
                  /\ Score(question_words, cands[k]) > ScoreFloor(question_words)
            /\ qa.answer = FallbackAnswer(qa.chunks) <=> NoCandidateSentence(qa.chunks)
            /\ cands = <<>> <=> NoCandidateSentence(qa.chunks)

\* sentences that share no word with the question, from a chunk of similarity
\* exactly 0.7: they score 0.35 and make the answer
C22_Witness ==
    /\ qa.called
    /\ qa.question = <<"c">>
    /\ Len(qa.chunks) = 1
    /\ qa.chunks[1].content = TextTwo
    /\ qa.chunks[1].similarity_score = DefaultThreshold
    /\ qa.answer = join(<<SentenceA, SentenceB>>)

====
